---- MODULE Spec2Model ----
(***************************************************************************)
(* A model of src/app.py, the Streamlit script of the market dashboard.    *)
(*                                                                         *)
(* One run of the script is one computation pass: the sidebar widgets are  *)
(* read, load_data downloads the price table, and the four tabs compute,   *)
(* statement after statement, the derived columns on that table.  The      *)
(* model has one action per indicator statement group; pc is the script's  *)
(* position.                                                               *)
(*                                                                         *)
(* Numbers.  The script computes in IEEE doubles.  The model computes in   *)
(* exact extended rationals <<n, d>> (d = 0 holds NaN, +inf, -inf), in     *)
(* values a + c*sqrt(r) where a square root is taken, and it rounds the    *)
(* recursive exponential averages to multiples of 1/FpScale.  The sign of  *)
(* a zero is not carried.                                                  *)
(***************************************************************************)
EXTENDS Integers, Sequences, FiniteSets, TLC

VARIABLES pc, interval, index, data, ann_factor, short_window, long_window,
          bb_window, metrics, summary, benchmark_index, benchmark_data,
          comparison, error

vars == <<pc, interval, index, data, ann_factor, short_window, long_window,
          bb_window, metrics, summary, benchmark_index, benchmark_data,
          comparison, error>>

-----------------------------------------------------------------------------
(* Bounds of the model.                                                    *)

\* Longest downloaded price table, in bars.
MaxLen == 52

\* Close prices take the two values 1 and MaxPrice.
MaxPrice == 2

\* Timestamps of the benchmark's bars are drawn from 0..MaxTs.
MaxTs == 2

\* Recursive exponential averages are rounded to multiples of 1/FpScale.
FpScale == 4096

-----------------------------------------------------------------------------
(* Floating-point values: extended rationals.                              *)

Abs(n) == IF n < 0 THEN -n ELSE n

Sgn(n) == IF n < 0 THEN -1 ELSE IF n > 0 THEN 1 ELSE 0

RECURSIVE Gcd(_, _)
Gcd(a, b) == IF b = 0 THEN a ELSE Gcd(b, a % b)

NaN == <<0, 0>>

PosInf == <<1, 0>>

NegInf == <<-1, 0>>

\* The double n/d.
Norm(n, d) ==
    IF d = 0 THEN <<Sgn(n), 0>>
    ELSE LET s == IF d < 0 THEN -1 ELSE 1
             g == Gcd(Abs(n), Abs(d))
         IN  <<(s * n) \div g, (s * d) \div g>>

Num(k) == <<k, 1>>

IsNaN(x) == x = NaN

IsFinite(x) == x[2] # 0

FNeg(x) == <<-x[1], x[2]>>

FAdd(x, y) ==
    IF x[2] = 1 /\ y[2] = 1 THEN <<x[1] + y[1], 1>>
    ELSE IF IsNaN(x) \/ IsNaN(y) THEN NaN
    ELSE IF ~IsFinite(x) /\ ~IsFinite(y) THEN (IF x = y THEN x ELSE NaN)
    ELSE IF ~IsFinite(x) THEN x
    ELSE IF ~IsFinite(y) THEN y
    ELSE LET g == Gcd(x[2], y[2])
         IN  Norm(x[1] * (y[2] \div g) + y[1] * (x[2] \div g),
                  (x[2] \div g) * y[2])

FSub(x, y) == FAdd(x, FNeg(y))

FMul(x, y) ==
    IF x[2] = 1 /\ y[2] = 1 THEN <<x[1] * y[1], 1>>
    ELSE IF IsNaN(x) \/ IsNaN(y) THEN NaN
    ELSE IF ~IsFinite(x) \/ ~IsFinite(y)
         THEN Norm(Sgn(x[1]) * Sgn(y[1]), 0)
    ELSE LET g1 == Gcd(Abs(x[1]), y[2])
             g2 == Gcd(Abs(y[1]), x[2])
         IN  Norm((x[1] \div g1) * (y[1] \div g2),
                  (x[2] \div g2) * (y[2] \div g1))

\* IEEE division: x/0 is an infinity for x # 0, and 0/0 is NaN.
FDiv(x, y) ==
    IF IsNaN(x) \/ IsNaN(y) THEN NaN
    ELSE IF ~IsFinite(y) THEN (IF IsFinite(x) THEN Num(0) ELSE NaN)
    ELSE IF ~IsFinite(x)
         THEN (IF y[1] < 0 THEN FNeg(x) ELSE x)
    ELSE IF y[1] = 0 THEN Norm(Sgn(x[1]), 0)
    ELSE FMul(x, <<Sgn(y[1]) * y[2], Abs(y[1])>>)

\* x < y; every comparison with NaN is false.
FLt(x, y) ==
    /\ ~IsNaN(x)
    /\ ~IsNaN(y)
    /\ IF ~IsFinite(x) /\ ~IsFinite(y) THEN x[1] < y[1]
       ELSE x[1] * y[2] < y[1] * x[2]

FLeq(x, y) == ~IsNaN(x) /\ ~IsNaN(y) /\ (x = y \/ FLt(x, y))

\* int(x) of a finite x >= 0.
IntTrunc(x) == x[1] \div x[2]

\* A finite x in units of 1/FpScale, rounded down.
Scaled(x) ==
    (x[1] \div x[2]) * FpScale + ((x[1] % x[2]) * FpScale) \div x[2]

-----------------------------------------------------------------------------
(* Values a + c * sqrt(r): <<a, c, r>>, a and r rationals, c an integer.   *)

Surd(a, c, r) ==
    IF IsNaN(a) \/ IsNaN(r) THEN <<NaN, 0, Num(0)>>
    ELSE IF c = 0 \/ r = Num(0) THEN <<a, 0, Num(0)>>
    ELSE <<a, c, r>>

SurdNaN == Surd(NaN, 0, Num(0))

SurdIsNaN(x) == IsNaN(x[1])

\* np.sqrt of a rational v >= 0.
Sqrt(v) == Surd(Num(0), 1, v)

\* The product of c1*sqrt(r1) and c2*sqrt(r2).
SurdMul(x, y) ==
    IF SurdIsNaN(x) \/ SurdIsNaN(y) THEN SurdNaN
    ELSE Surd(Num(0), x[2] * y[2], FMul(x[3], y[3]))

\* x * k for an integer k.
SurdScale(x, k) ==
    IF SurdIsNaN(x) THEN SurdNaN
    ELSE Surd(FMul(x[1], Num(k)), x[2] * k, x[3])

\* a rational plus, or minus (sign = -1), a value c*sqrt(r).
SurdAddTo(a, sign, x) ==
    IF IsNaN(a) \/ SurdIsNaN(x) THEN SurdNaN
    ELSE Surd(FAdd(a, FMul(Num(sign), x[1])), sign * x[2], x[3])

\* x <= y for two values over the same square root.
SurdLeq(x, y) ==
    /\ ~SurdIsNaN(x)
    /\ ~SurdIsNaN(y)
    /\ LET d  == FSub(y[1], x[1])
           k  == x[2] - y[2]
           r  == IF x[2] # 0 THEN x[3] ELSE y[3]
           d2 == FMul(d, d)
           k2 == FMul(Num(k * k), r)
       IN  IF k <= 0 /\ d[1] >= 0 THEN TRUE
           ELSE IF k > 0 /\ d[1] < 0 THEN FALSE
           ELSE IF k > 0 THEN FLeq(k2, d2)
           ELSE FLeq(d2, k2)

-----------------------------------------------------------------------------
(* A column is a sequence of values, position i + 1 holding pandas' row i. *)

Intraday == {"1m", "5m", "15m", "30m", "1h"}

\* The sampling factor 6.5 (trading hours a day).
HoursPerDay == <<13, 2>>

\* annualization_factor(interval), lines 38-49.
annualization_factor(iv) ==
    IF iv \in Intraday THEN Sqrt(FMul(Num(252), HoursPerDay))
    ELSE IF iv = "1d" THEN Sqrt(Num(252))
    ELSE IF iv = "1wk" THEN Sqrt(Num(52))
    ELSE IF iv = "1mo" THEN Sqrt(Num(12))
    ELSE Sqrt(Num(252))

\* moving_average_windows(interval), lines 51-60: <<short, long>>.
moving_average_windows(iv) ==
    IF iv \in Intraday
    THEN <<FMul(Num(50), HoursPerDay), FMul(Num(200), HoursPerDay)>>
    ELSE IF iv = "1d" THEN <<Num(50), Num(200)>>
    ELSE IF iv = "1wk" THEN <<Num(10), Num(40)>>
    ELSE <<Num(6), Num(12)>>

\* bollinger_window(interval), lines 62-71.
bollinger_window(iv) ==
    IF iv \in Intraday THEN FMul(Num(20), HoursPerDay)
    ELSE IF iv = "1d" THEN Num(20)
    ELSE IF iv = "1wk" THEN Num(4)
    ELSE Num(6)

\* Series.pct_change(): s / s.shift(1) - 1.
PctChange(s) ==
    [i \in 1..Len(s) |->
        IF i = 1 THEN NaN ELSE FSub(FDiv(s[i], s[i - 1]), Num(1))]

\* Series.diff(): s - s.shift(1).
Diff(s) ==
    [i \in 1..Len(s) |-> IF i = 1 THEN NaN ELSE FSub(s[i], s[i - 1])]

\* The running window state of Series.rolling(w): <<sum, sum of squares,
\* number>> of the non-missing values among the last w rows.  Row i adds its
\* value and removes the one that leaves the window.
RollStep(s, w, i, st) ==
    LET inV  == s[i]
        outV == IF i - w >= 1 THEN s[i - w] ELSE NaN
        sx1  == IF IsNaN(inV) THEN st[1] ELSE FAdd(st[1], inV)
        q1   == IF IsNaN(inV) THEN st[2] ELSE FAdd(st[2], FMul(inV, inV))
        n1   == IF IsNaN(inV) THEN st[3] ELSE st[3] + 1
    IN  IF IsNaN(outV) THEN <<sx1, q1, n1>>
        ELSE <<FSub(sx1, outV), FSub(q1, FMul(outV, outV)), n1 - 1>>

\* The states after rows lo..hi, from the state st before row lo.
RECURSIVE RollScan(_, _, _, _, _)
RollScan(s, w, lo, hi, st) ==
    IF lo > hi THEN <<>>
    ELSE IF lo = hi THEN <<RollStep(s, w, lo, st)>>
    ELSE LET mid  == (lo + hi) \div 2
             left == RollScan(s, w, lo, mid, st)
         IN  left \o RollScan(s, w, mid + 1, hi, left[Len(left)])

\* rows holds the values of s, computed once.
Rolling(s, w) ==
    LET rows == s \o <<>>
    IN  RollScan(rows, w, 1, Len(rows), <<Num(0), Num(0), 0>>)

\* Series.rolling(w).mean(): min_periods defaults to the window.
RollingMeanPartial(s, w) ==
    LET st == Rolling(s, w)
    IN  [i \in 1..Len(s) |->
            IF st[i][3] >= 1 THEN FDiv(st[i][1], Num(st[i][3])) ELSE NaN]

RollingMean(s, w) ==
    LET st == Rolling(s, w)
    IN  [i \in 1..Len(s) |->
            IF st[i][3] >= w THEN FDiv(st[i][1], Num(st[i][3])) ELSE NaN]

\* Series.rolling(w).std(): the sample standard deviation (ddof = 1).
RollingStd(s, w) ==
    LET st == Rolling(s, w)
    IN  [i \in 1..Len(s) |->
            IF st[i][3] >= w /\ st[i][3] > 1
            THEN LET n == Num(st[i][3])
                     ss == FSub(st[i][2], FDiv(FMul(st[i][1], st[i][1]), n))
                 IN  Sqrt(FDiv(ss, FSub(n, Num(1))))
            ELSE SurdNaN]

\* column * factor, element by element, for square-root values.
ColSurdMul(col, f) == [i \in 1..Len(col) |-> SurdMul(col[i], f)]

ColSurdScale(col, k) == [i \in 1..Len(col) |-> SurdScale(col[i], k)]

ColSurdAdd(a, sign, x) == [i \in 1..Len(a) |-> SurdAddTo(a[i], sign, x[i])]

ColSub(a, b) == [i \in 1..Len(a) |-> FSub(a[i], b[i])]

\* price_diff.where(price_diff > 0, 0): a row whose test is false, a missing
\* one included, gets 0.
Gain(d) == [i \in 1..Len(d) |-> IF FLt(Num(0), d[i]) THEN d[i] ELSE Num(0)]

LossNotNegated(d) ==
    [i \in 1..Len(d) |-> IF FLt(d[i], Num(0)) THEN d[i] ELSE Num(0)]

\* -price_diff.where(price_diff < 0, 0).
Loss(d) ==
    [i \in 1..Len(d) |-> FNeg(IF FLt(d[i], Num(0)) THEN d[i] ELSE Num(0))]

\* A common denominator of the finite values of rows lo..hi.
RECURSIVE LcmDen(_, _, _)
LcmDen(s, lo, hi) ==
    IF lo > hi THEN 1
    ELSE IF lo = hi THEN (IF IsFinite(s[lo]) THEN s[lo][2] ELSE 1)
    ELSE LET a == LcmDen(s, lo, (lo + hi) \div 2)
             b == LcmDen(s, (lo + hi) \div 2 + 1, hi)
         IN  (a \div Gcd(a, b)) * b

\* The running state of an adjusted exponential average over a column s of
\* whole numbers: <<weighted sum, sum of the weights (1 - alpha)^(i-j),
\* number>> over the observed rows j <= i, the sums in units of 1/FpScale;
\* every row decays both sums by decay = 1 - alpha, an observed row then adds
\* its value.
EwmStep(s, decay, i, st) ==
    LET n0 == (st[1] * decay[1]) \div decay[2]
        d0 == (st[2] * decay[1]) \div decay[2]
    IN  IF IsNaN(s[i]) THEN <<n0, d0, st[3]>>
        ELSE <<n0 + s[i][1] * FpScale, d0 + FpScale, st[3] + 1>>

RECURSIVE EwmScan(_, _, _, _, _)
EwmScan(s, decay, lo, hi, st) ==
    IF lo > hi THEN <<>>
    ELSE IF lo = hi THEN <<EwmStep(s, decay, lo, st)>>
    ELSE LET mid  == (lo + hi) \div 2
             left == EwmScan(s, decay, lo, mid, st)
         IN  left \o EwmScan(s, decay, mid + 1, hi, left[Len(left)])

\* Series.ewm(com=com, min_periods=minp).mean() with adjust=True: the
\* weighted mean of the rows so far, missing before minp observations.
\* units holds the rows as multiples of 1/d, d their common denominator.
EwmMean(s, com, minp) ==
    LET rows  == s \o <<>>
        d     == LcmDen(rows, 1, Len(rows))
        units == [i \in 1..Len(rows) |-> FMul(rows[i], Num(d))] \o <<>>
        st    == EwmScan(units, <<com, com + 1>>, 1, Len(units), <<0, 0, 0>>)
    IN  [i \in 1..Len(rows) |->
            IF st[i][3] >= minp /\ st[i][3] >= 1
            THEN Norm(st[i][1], st[i][2] * d)
            ELSE NaN]

\* Series.ewm(span=span, adjust=False).mean(): y[0] = x[0] and
\* y[i] = alpha * x[i] + (1 - alpha) * y[i-1], alpha = 2 / (span + 1).  The
\* state is <<a row has been observed, y in units of 1/FpScale>>.
EwmRecStep(s, span, i, st) ==
    IF IsNaN(s[i]) THEN st
    ELSE IF ~st[1] THEN <<TRUE, Scaled(s[i])>>
    ELSE <<TRUE, (2 * Scaled(s[i]) + (span - 1) * st[2]) \div (span + 1)>>

RECURSIVE EwmRecScan(_, _, _, _, _)
EwmRecScan(s, span, lo, hi, st) ==
    IF lo > hi THEN <<>>
    ELSE IF lo = hi THEN <<EwmRecStep(s, span, lo, st)>>
    ELSE LET mid  == (lo + hi) \div 2
             left == EwmRecScan(s, span, lo, mid, st)
         IN  left \o EwmRecScan(s, span, mid + 1, hi, left[Len(left)])

EwmRecursive(s, span) ==
    LET rows == s \o <<>>
        st   == EwmRecScan(rows, span, 1, Len(rows), <<FALSE, 0>>)
    IN  [i \in 1..Len(rows) |->
            IF st[i][1] THEN Norm(st[i][2], FpScale) ELSE NaN]

\* 100 - (100 / (1 + rs)), row by row.
RsiOf(avg_gain, avg_loss) ==
    [i \in 1..Len(avg_gain) |->
        LET rs == FDiv(avg_gain[i], avg_loss[i])
        IN  FSub(Num(100), FDiv(Num(100), FAdd(Num(1), rs)))]

\* The value of column col at timestamp t, missing where idx lacks t.
At(idx, col, t) ==
    IF \E k \in 1..Len(idx) : idx[k] = t
    THEN col[CHOOSE k \in 1..Len(idx) : idx[k] = t]
    ELSE NaN

\* The numbers of S in increasing order.
SortedSeq(S) ==
    [k \in 1..Cardinality(S) |->
        CHOOSE x \in S : Cardinality({y \in S : y < x}) = k - 1]

Range(s) == {s[i] : i \in 1..Len(s)}

\* pd.DataFrame({a: ra, b: rb}) over the union of the two indexes, then
\* .dropna(), then * 100: rows <<t, a, b>>.
Compare(ia, ra, ib, rb) ==
    LET ts   == SortedSeq(Range(ia) \cup Range(ib))
        rows == [k \in 1..Len(ts) |->
                    <<ts[k], At(ia, ra, ts[k]), At(ib, rb, ts[k])>>]
        kept == SelectSeq(rows, LAMBDA r : ~IsNaN(r[2]) /\ ~IsNaN(r[3]))
    IN  [k \in 1..Len(kept) |->
            <<kept[k][1], FMul(kept[k][2], Num(100)),
              FMul(kept[k][3], Num(100))>>]

-----------------------------------------------------------------------------
(* The inputs of a pass.                                                   *)

\* The sidebar's interval selectbox, line 19.
IntervalOptions == {"15m", "1h", "1d"}

\* Every label the calibrators tell apart, and two they do not know.
Labels == Intraday \cup {"1d", "1wk", "1mo", "2h", "unknown"}

Prices == {1, MaxPrice}

\* A downloaded close series opens with at most one bar (Heads) and then
\* repeats a pattern of one or two prices (Cycles): constant, one step up or
\* down and then flat, alternating.
Heads == {<<>>} \cup {<<p>> : p \in Prices}

Cycles == {<<p>> : p \in Prices} \cup {<<p, q>> : p, q \in Prices}

CloseSeries(head, cyc, n) ==
    [i \in 1..n |->
        IF i <= Len(head) THEN Num(head[i])
        ELSE Num(cyc[((i - Len(head) - 1) % Len(cyc)) + 1])]

\* A name that is not bound yet.
Unset == <<>>

\* The table load_data returns: the engine reads its Close column only.
Table(close) == [c \in {"Close"} |-> close]

\* data[name] = col.
SetColumn(t, name, col) == (name :> col) @@ t

\* values[-1] / iloc[-1] of a non-empty column.
Last(col) == col[Len(col)]

-----------------------------------------------------------------------------
(* The script, top to bottom.                                              *)

TypeInit ==
    /\ pc = "load"
    /\ index = <<>>
    /\ data = Table(<<>>)
    /\ ann_factor = Unset
    /\ short_window = Unset
    /\ long_window = Unset
    /\ bb_window = Unset
    /\ metrics = Unset
    /\ summary = Unset
    /\ benchmark_index = <<>>
    /\ benchmark_data = Table(<<>>)
    /\ comparison = Unset
    /\ error = "none"

\* Lines 15-22: the widgets are read; the selectbox offers three intervals.
Init == interval \in IntervalOptions /\ TypeInit

\* The calibrators called with any label.
InitLabels == interval \in Labels /\ TypeInit

\* Lines 28-35: data = load_data(first_ticker, period, interval).  A failed
\* download comes back as a table without rows.
LoadData ==
    /\ pc = "load"
    /\ \E head \in Heads, cyc \in Cycles, n \in 0..MaxLen :
          /\ index' = [i \in 1..n |-> i]
          /\ data' = Table(CloseSeries(head, cyc, n))
    /\ pc' = "returns"
    /\ UNCHANGED <<interval, ann_factor, short_window, long_window, bb_window,
                   metrics, summary, benchmark_index, benchmark_data,
                   comparison, error>>

\* Line 91.
Returns ==
    /\ pc = "returns"
    /\ data' = SetColumn(data, "Returns", PctChange(data["Close"]))
    /\ pc' = "calibrate"
    /\ UNCHANGED <<interval, index, ann_factor, short_window, long_window,
                   bb_window, metrics, summary, benchmark_index,
                   benchmark_data, comparison, error>>

\* Lines 92-93.
Calibrate ==
    /\ pc = "calibrate"
    /\ ann_factor' = annualization_factor(interval)
    /\ short_window' = moving_average_windows(interval)[1]
    /\ long_window' = moving_average_windows(interval)[2]
    /\ pc' = "volatility"
    /\ UNCHANGED <<interval, index, data, bb_window, metrics, summary,
                   benchmark_index, benchmark_data, comparison, error>>

\* Line 94.
RollingVolatility ==
    /\ pc = "volatility"
    /\ data' = SetColumn(data, "Rolling Volatility",
                   ColSurdMul(RollingStd(data["Returns"],
                                         IntTrunc(short_window)),
                              ann_factor))
    /\ pc' = "moving_averages"
    /\ UNCHANGED <<interval, index, ann_factor, short_window, long_window,
                   bb_window, metrics, summary, benchmark_index,
                   benchmark_data, comparison, error>>

\* Lines 95-96.
MovingAverages ==
    /\ pc = "moving_averages"
    /\ data' = SetColumn(
                   SetColumn(data, "MA_50",
                       RollingMean(data["Close"], IntTrunc(short_window))),
                   "MA_200",
                   RollingMean(data["Close"], IntTrunc(long_window)))
    /\ pc' = "metrics"
    /\ UNCHANGED <<interval, index, ann_factor, short_window, long_window,
                   bb_window, metrics, summary, benchmark_index,
                   benchmark_data, comparison, error>>

\* Lines 108-111: values[-1] of a column without rows raises IndexError, and
\* the uncaught exception ends the script.  float(nan) formats as "nan".
Metrics ==
    /\ pc = "metrics"
    /\ IF Len(index) = 0
       THEN /\ pc' = "failed"
            /\ error' = "IndexError"
            /\ UNCHANGED metrics
       ELSE /\ metrics' = <<Last(data["Close"]),
                            Last(data["Rolling Volatility"]),
                            Last(data["Returns"])>>
            /\ pc' = "rsi"
            /\ UNCHANGED error
    /\ UNCHANGED <<interval, index, data, ann_factor, short_window,
                   long_window, bb_window, summary, benchmark_index,
                   benchmark_data, comparison>>

\* window_length, line 127.
window_length == 14

avg_gain(close) ==
    EwmMean(Gain(Diff(close)), window_length - 1, window_length)

avg_loss(close) ==
    EwmMean(Loss(Diff(close)), window_length - 1, window_length)

\* Lines 127-134.
Rsi ==
    /\ pc = "rsi"
    /\ data' = SetColumn(data, "RSI",
                   RsiOf(avg_gain(data["Close"]), avg_loss(data["Close"])))
    /\ pc' = "bollinger"
    /\ UNCHANGED <<interval, index, ann_factor, short_window, long_window,
                   bb_window, metrics, summary, benchmark_index,
                   benchmark_data, comparison, error>>

\* Line 145 with the band added instead of subtracted.
Lower_BandAdded(ma, sd) == ColSurdAdd(ma, 1, ColSurdScale(sd, 2))

\* Line 144.
Upper_Band(ma, sd) == ColSurdAdd(ma, 1, ColSurdScale(sd, 2))

\* Line 145.
Lower_Band(ma, sd) == ColSurdAdd(ma, -1, ColSurdScale(sd, 2))

\* Lines 142-145.
Bollinger ==
    /\ pc = "bollinger"
    /\ LET w  == IntTrunc(bollinger_window(interval))
           ma == RollingMean(data["Close"], w)
           sd == RollingStd(data["Close"], w)
       IN  /\ bb_window' = w
           /\ data' = SetColumn(SetColumn(SetColumn(data, "MA_20", ma),
                                    "Upper_Band", Upper_Band(ma, sd)),
                                "Lower_Band", Lower_Band(ma, sd))
    /\ pc' = "macd"
    /\ UNCHANGED <<interval, index, ann_factor, short_window, long_window,
                   metrics, summary, benchmark_index, benchmark_data,
                   comparison, error>>

\* Lines 171-175.
Macd ==
    /\ pc = "macd"
    /\ LET short_runner == EwmRecursive(data["Close"], 12)
           long_runner  == EwmRecursive(data["Close"], 26)
           macd   == ColSub(short_runner, long_runner)
           signal == EwmRecursive(macd, 9)
       IN  data' = SetColumn(SetColumn(SetColumn(data, "MACD", macd),
                                 "Signal_Line", signal),
                             "Histogram", ColSub(macd, signal))
    /\ pc' = "summary"
    /\ UNCHANGED <<interval, index, ann_factor, short_window, long_window,
                   bb_window, metrics, summary, benchmark_index,
                   benchmark_data, comparison, error>>

\* Lines 204-210; the table has rows here, Metrics having passed.
Summary ==
    /\ pc = "summary"
    /\ LET latest_macd == FSub(Last(data["MACD"]), Last(data["Signal_Line"]))
       IN  summary' = <<Last(data["RSI"]), Last(data["Rolling Volatility"]),
                        IF FLt(Num(0), latest_macd) THEN "Bullish"
                        ELSE "Bearish">>
    /\ pc' = "load_benchmark"
    /\ UNCHANGED <<interval, index, data, ann_factor, short_window,
                   long_window, bb_window, metrics, benchmark_index,
                   benchmark_data, comparison, error>>

\* Lines 215-220: benchmark_data = load_data("^GSPC", period, interval); its
\* bars carry timestamps of their own, and their closes alternate.
LoadBenchmark ==
    /\ pc = "load_benchmark"
    /\ \E T \in SUBSET (0..MaxTs) :
          /\ benchmark_index' = SortedSeq(T)
          /\ benchmark_data' =
                 Table(CloseSeries(<<>>, <<1, MaxPrice>>, Cardinality(T)))
    /\ pc' = "compare"
    /\ UNCHANGED <<interval, index, data, ann_factor, short_window,
                   long_window, bb_window, metrics, summary, comparison,
                   error>>

\* Lines 223-229.
CompareReturns ==
    /\ pc = "compare"
    /\ LET ra == PctChange(data["Close"])
           rb == PctChange(benchmark_data["Close"])
       IN  /\ data' = SetColumn(data, "Return", ra)
           /\ benchmark_data' = SetColumn(benchmark_data, "Return", rb)
           /\ comparison' = Compare(index, ra, benchmark_index, rb)
    /\ pc' = "done"
    /\ UNCHANGED <<interval, index, ann_factor, short_window, long_window,
                   bb_window, metrics, summary, benchmark_index, error>>

Next ==
    \/ LoadData
    \/ Returns
    \/ Calibrate
    \/ RollingVolatility
    \/ MovingAverages
    \/ Metrics
    \/ Rsi
    \/ Bollinger
    \/ Macd
    \/ Summary
    \/ LoadBenchmark
    \/ CompareReturns

Spec == Init /\ [][Next]_vars

SpecLabels == InitLabels /\ [][Next]_vars

-----------------------------------------------------------------------------
(* The properties checked.  Row i of pandas is position i + 1 here.        *)

Recognized == Intraday \cup {"1d", "1wk", "1mo"}

HasColumn(name) == name \in DOMAIN data

Calibrated == pc \notin {"load", "returns", "calibrate"}

BandsComputed == HasColumn("Lower_Band")

IsConstant(col) == \A j \in 1..Len(col) : col[j] = col[1]

\* The sum of the whole numbers col[lo], ..., col[hi].
RECURSIVE SumRange(_, _, _)
SumRange(col, lo, hi) ==
    IF lo > hi THEN 0
    ELSE IF lo = hi THEN col[lo][1]
    ELSE SumRange(col, lo, (lo + hi) \div 2)
             + SumRange(col, (lo + hi) \div 2 + 1, hi)

Min(a, b) == IF a <= b THEN a ELSE b

\* The positions of the script at which an indicator step is about to run.
IndicatorSteps ==
    {"returns", "volatility", "moving_averages", "rsi", "bollinger", "macd",
     "compare"}

\* C1: for a label outside the recognized vocabulary the calibrators give
\* the parameters of "1d": the same annualization factor, the same short and
\* long windows, the same Bollinger window.
C1_UnknownLabelGetsDailyParameters ==
    (Calibrated /\ interval \notin Recognized) =>
        /\ ann_factor = annualization_factor("1d")
        /\ short_window = moving_average_windows("1d")[1]
        /\ long_window = moving_average_windows("1d")[2]
        /\ BandsComputed => bb_window = IntTrunc(bollinger_window("1d"))

\* C2: when the download returns no rows, no indicator step runs on the
\* empty table (no derived column, no calibration, no metric appears) and the
\* pass does not end in an exception raised inside the tabs.
C2_EmptySeriesStopsBeforeIndicators ==
    (pc # "load" /\ Len(data["Close"]) = 0) =>
        /\ DOMAIN data = {"Close"}
        /\ ann_factor = Unset
        /\ error # "IndexError"

\* C3: at every row where the average loss is defined and 0, a constant
\* price series included, the RSI is exactly 100.
C3_ZeroAverageLossGivesRsi100 ==
    HasColumn("RSI") =>
        LET al == avg_loss(data["Close"])
        IN  \A i \in 1..Len(al) :
                al[i] = Num(0) => data["RSI"][i] = Num(100)

\* C4: no indicator step changes the price table: its columns and their
\* values are the same after the step as before it.
C4_IndicatorStepsLeaveTableUnchanged ==
    [][(pc \in IndicatorSteps) => (data' = data)]_vars

\* C5: the comparison has a row for timestamp t exactly when t is in both
\* indexes and both returns at t are present, its values are those returns
\* in percent, and it has at most min(len(target), len(benchmark)) - 1 rows.
C5_ComparisonIsStrictIntersection ==
    pc = "done" =>
        LET ra == data["Return"]
            rb == benchmark_data["Return"]
        IN  /\ \A t \in Range(index) \cup Range(benchmark_index) :
                   (\E k \in 1..Len(comparison) : comparison[k][1] = t)
                   <=> /\ t \in Range(index) \cap Range(benchmark_index)
                       /\ ~IsNaN(At(index, ra, t))
                       /\ ~IsNaN(At(benchmark_index, rb, t))
            /\ \A k \in 1..Len(comparison) :
                   /\ comparison[k][1]
                          \in Range(index) \cap Range(benchmark_index)
                   /\ comparison[k][2]
                          = FMul(At(index, ra, comparison[k][1]), Num(100))
                   /\ comparison[k][3]
                          = FMul(At(benchmark_index, rb, comparison[k][1]),
                                 Num(100))
            /\ Len(comparison)
                   <= Min(Len(index), Len(benchmark_index)) - 1

\* C6: a moving average of window w is missing at exactly the rows
\* i < w - 1 and is the sum of the last w prices divided by w elsewhere; over
\* a constant series it is that constant.
C6_MovingAverageIsFullWindowMean ==
    HasColumn("MA_200") =>
        \A c \in {<<"MA_50", IntTrunc(short_window)>>,
                  <<"MA_200", IntTrunc(long_window)>>} :
            LET ma    == data[c[1]]
                w     == c[2]
                close == data["Close"]
            IN  /\ w >= 1
                /\ Len(ma) = Len(close)
                /\ \A i \in 1..Len(close) :
                       IF i < w THEN IsNaN(ma[i])
                       ELSE /\ ma[i] = Norm(SumRange(close, i - w + 1, i), w)
                            /\ IsConstant(close) => ma[i] = close[1]

\* C6 witness: a moving average is defined over a window of prices that
\* are not all equal.
C6_Witness ==
    /\ HasColumn("MA_200")
    /\ \E i \in 1..Len(index) :
           /\ ~IsNaN(data["MA_50"][i])
           /\ i >= IntTrunc(short_window)
           /\ data["MA_50"][i] # data["Close"][i]

\* C7: the rolling volatility is missing at exactly the rows i < window,
\* and a table shorter than window + 1 bars gives an all-missing column and a
\* missing latest-volatility metric without any step of the pass failing.
C7_ShortSeriesGivesMissingVolatility ==
    HasColumn("Rolling Volatility") =>
        LET w   == IntTrunc(short_window)
            vol == data["Rolling Volatility"]
        IN  /\ \A i \in 1..Len(vol) : SurdIsNaN(vol[i]) <=> i - 1 < w
            /\ Len(index) < w + 1 =>
                   /\ pc # "failed"
                   /\ metrics # Unset => SurdIsNaN(metrics[2])

\* C8: the bands are defined at exactly the rows where the middle band is,
\* there lower <= middle <= upper with upper - middle = middle - lower, and
\* over a constant series the three are equal.
C8_BandsEncloseTheMiddle ==
    BandsComputed =>
        \A i \in 1..Len(index) :
            LET m   == data["MA_20"][i]
                u   == data["Upper_Band"][i]
                l   == data["Lower_Band"][i]
                mid == Surd(m, 0, Num(0))
            IN  /\ SurdIsNaN(u) <=> IsNaN(m)
                /\ SurdIsNaN(l) <=> IsNaN(m)
                /\ IsNaN(m) <=> i < bb_window
                /\ ~IsNaN(m) =>
                       /\ SurdLeq(l, mid)
                       /\ SurdLeq(mid, u)
                       /\ FSub(u[1], m) = FSub(m, l[1])
                       /\ u[2] = -l[2]
                       /\ u[3] = l[3]
                       /\ IsConstant(data["Close"]) => (u = mid /\ l = mid)

\* C8 witness: the bands are defined at a row where the standard deviation
\* is not 0, so that the three differ.
C8_Witness ==
    /\ BandsComputed
    /\ \E i \in 1..Len(index) :
           /\ ~IsNaN(data["MA_20"][i])
           /\ data["Upper_Band"][i][2] > 0
           /\ data["Lower_Band"][i] # data["Upper_Band"][i]

\* C9: wherever the RSI is defined it lies in [0, 100].
C9_RsiWithinRange ==
    HasColumn("RSI") =>
        \A i \in 1..Len(index) :
            LET x == data["RSI"][i]
            IN  ~IsNaN(x) => (FLeq(Num(0), x) /\ FLeq(x, Num(100)))

\* C9 witness: an RSI value strictly between 0 and 100.
C9_Witness ==
    /\ HasColumn("RSI")
    /\ \E i \in 1..Len(index) :
           /\ FLt(Num(0), data["RSI"][i])
           /\ FLt(data["RSI"][i], Num(100))

\* C10: row 0 gives no gain or loss observation, so the RSI is missing at
\* every row i < 14 and is first defined at row 14.
C10_RsiMissingBeforeRow14 ==
    HasColumn("RSI") =>
        \A i \in 1..Len(index) :
            i - 1 < window_length => IsNaN(data["RSI"][i])

====
